---- MODULE Spec2Model ----
(***************************************************************************)
(* Report_Generator (src/report_generator.py): fetch of three worksheets   *)
(* with retry and exponential backoff, normalisation of the raw string     *)
(* grids into typed tables, monthly aggregation, report assembly, and the  *)
(* batch loop that isolates failures per sheet link.                       *)
(*                                                                         *)
(* Cell strings are sequences of one-character strings.  Numbers are fixed *)
(* point integers in units of 1/Unit; the cells of the bounded input sets  *)
(* carry at most two fractional digits, so no digit is lost.               *)
(***************************************************************************)
EXTENDS Integers, Sequences, FiniteSets, TLC

(***************************************************************************)
(* Strings and cell coercion                                               *)
(***************************************************************************)

\* Number of fractional digits the fixed point representation keeps.
FracDigits == 4

Digits == {"0", "1", "2", "3", "4", "5", "6", "7", "8", "9"}

IsDigit(c) == c \in Digits

DigitVal(c) ==
  CASE c = "0" -> 0 [] c = "1" -> 1 [] c = "2" -> 2 [] c = "3" -> 3
    [] c = "4" -> 4 [] c = "5" -> 5 [] c = "6" -> 6 [] c = "7" -> 7
    [] c = "8" -> 8 [] c = "9" -> 9

RECURSIVE Pow10(_)
Pow10(n) == IF n = 0 THEN 1 ELSE 10 * Pow10(n - 1)

\* Fixed point unit: one integer step is 1/Unit.
Unit == Pow10(FracDigits)

\* Value of a sequence of decimal digits (0 for the empty sequence).
RECURSIVE NatOf(_)
NatOf(s) ==
  IF Len(s) = 0 THEN 0
  ELSE 10 * NatOf(SubSeq(s, 1, Len(s) - 1)) + DigitVal(s[Len(s)])

AllDigits(s) == \A i \in 1..Len(s) : IsDigit(s[i])

\* A float cell: NaN, or a value in units of 1/Unit.
NaN == [nan |-> TRUE, v |-> 0]

Num(x) == [nan |-> FALSE, v |-> x]

\* A datetime cell: NaT, or a calendar date.
NaT == [y |-> 0, m |-> 0, d |-> 0]

\* Series.str.replace(r'[^\d.]', '', regex=True) on one cell.
StripNonNumeric(s) == SelectSeq(s, LAMBDA c : IsDigit(c) \/ c = ".")

\* Series.str.replace('%', '', regex=True) on one cell.
StripPercent(s) == SelectSeq(s, LAMBDA c : c # "%")

\* pd.to_numeric(..., errors='coerce') on one string cell: an optional sign,
\* digits with at most one decimal point and at least one digit; anything
\* else is NaN.
ToNumeric(s) ==
  LET signed == Len(s) > 0 /\ s[1] \in {"-", "+"}
      body   == IF signed THEN Tail(s) ELSE s
      dots   == {i \in 1..Len(body) : body[i] = "."}
      ok     == /\ \A i \in 1..Len(body) : IsDigit(body[i]) \/ body[i] = "."
                /\ Cardinality(dots) <= 1
                /\ \E i \in 1..Len(body) : IsDigit(body[i])
      p      == IF dots = {} THEN Len(body) + 1 ELSE CHOOSE i \in dots : TRUE
      ip     == SubSeq(body, 1, p - 1)
      fp     == SubSeq(body, p + 1, Len(body))
      fk     == IF Len(fp) > FracDigits THEN SubSeq(fp, 1, FracDigits) ELSE fp
      mag    == NatOf(ip) * Unit + NatOf(fk) * Pow10(FracDigits - Len(fk))
  IN IF ~ok THEN NaN
     ELSE Num(IF signed /\ s[1] = "-" THEN -mag ELSE mag)

IsLeap(y) == (y % 4 = 0 /\ y % 100 # 0) \/ y % 400 = 0

DaysInMonth(y, m) ==
  IF m = 2 THEN (IF IsLeap(y) THEN 29 ELSE 28)
  ELSE IF m \in {4, 6, 9, 11} THEN 30 ELSE 31

\* Lexicographic order on calendar dates.
DateLeq(a, b) ==
  \/ a.y < b.y
  \/ a.y = b.y /\ a.m < b.m
  \/ a.y = b.y /\ a.m = b.m /\ a.d <= b.d

\* pd.to_datetime(..., format='%d/%m/%Y', errors='coerce') on one cell:
\* day/month/year separated by "/", one or two digits for day and month,
\* four for the year, a real calendar day inside the nanosecond timestamp
\* range; anything else is NaT.
ToDatetime(s) ==
  LET slashes == {i \in 1..Len(s) : s[i] = "/"}
      p1 == CHOOSE i \in slashes : \A j \in slashes : i <= j
      p2 == CHOOSE i \in slashes : \A j \in slashes : j <= i
      ds == SubSeq(s, 1, p1 - 1)
      ms == SubSeq(s, p1 + 1, p2 - 1)
      ys == SubSeq(s, p2 + 1, Len(s))
      dt == [y |-> NatOf(ys), m |-> NatOf(ms), d |-> NatOf(ds)]
  IN IF Cardinality(slashes) # 2 THEN NaT
     ELSE IF ~(AllDigits(ds) /\ AllDigits(ms) /\ AllDigits(ys)) THEN NaT
     ELSE IF ~(Len(ds) \in 1..2 /\ Len(ms) \in 1..2 /\ Len(ys) = 4) THEN NaT
     ELSE IF ~(dt.m \in 1..12 /\ dt.d >= 1) THEN NaT
     ELSE IF dt.d > DaysInMonth(dt.y, dt.m) THEN NaT
     ELSE IF ~(DateLeq([y |-> 1677, m |-> 9, d |-> 22], dt)
               /\ DateLeq(dt, [y |-> 2262, m |-> 4, d |-> 11])) THEN NaT
     ELSE dt

(***************************************************************************)
(* Data frames                                                             *)
(***************************************************************************)

\* pd.DataFrame(): no columns, no rows.
EmptyDataFrame == [columns |-> <<>>, rows |-> <<>>]

\* DataFrame.empty: some axis has length 0.
IsEmpty(df) == Len(df.columns) = 0 \/ Len(df.rows) = 0

\* `name in df`: membership among the column labels.
HasColumn(df, name) == \E i \in 1..Len(df.columns) : df.columns[i] = name

\* A frame that loses the first data row.
RawFrameSkipsRow(raw_data) == [columns |-> raw_data[1], rows |-> Tail(Tail(raw_data))]

\* pd.DataFrame(raw_data[1:], columns=raw_data[0]): row 0 gives the column
\* labels (duplicates allowed), the other rows the cells by position.
RawFrame(raw_data) == [columns |-> raw_data[1], rows |-> Tail(raw_data)]

\* Positions of a label among the columns of the raw frame.
Positions(df, name) == {i \in 1..Len(df.columns) : df.columns[i] = name}

\* What df[name] fails with in a statement that needs a Series: KeyError
\* when the label is absent, and, when the label is duplicated (df[name] is
\* then a DataFrame), the exception `dup` of the operation applied to it.
\* "" when df[name] is a Series.
AccessError(df, name, dup) ==
  IF Positions(df, name) = {} THEN "KeyError"
  ELSE IF Cardinality(Positions(df, name)) > 1 THEN dup
  ELSE ""

\* The cells of the column df[name], when it is a Series.
Column(df, name) ==
  LET p == CHOOSE i \in Positions(df, name) : TRUE
  IN [r \in 1..Len(df.rows) |-> df.rows[r][p]]

\* The first failing statement of a normalizer, in statement order:
\* steps is the sequence of <<label, exception on a duplicated label>>.
FirstError(df, steps) ==
  LET bad == {i \in 1..Len(steps) : AccessError(df, steps[i][1], steps[i][2]) # ""}
      i0  == CHOOSE i \in bad : \A j \in bad : i <= j
  IN IF bad = {} THEN [exc |-> "", arg |-> ""]
     ELSE [exc |-> AccessError(df, steps[i0][1], steps[i0][2]), arg |-> steps[i0][1]]

Returned(df) == [raised |-> FALSE, exc |-> "", arg |-> "", table |-> df]

Raised(e) == [raised |-> TRUE, exc |-> e.exc, arg |-> e.arg, table |-> EmptyDataFrame]

\* Series / 100 on a float cell (NaN stays NaN).
Div100(x) == IF x.nan THEN NaN ELSE Num(x.v \div 100)

\* A test that takes a header alone for data.
HasAnyRow(raw_data) == Len(raw_data) > 0

\* if len(raw_data) > 1: the grid has a header and at least one data row.
HasDataRows(raw_data) == Len(raw_data) > 1

ProductsColumns == <<"Date Uploaded", "eBay Price", "Profit Per Product Present">>

OrdersColumns ==
  <<"Date Of Purchase", "eBay Price", "Profit Per Sale USD", "Total Sales", "Total Profits">>

HoursColumns == <<"Date", "Hours">>

\* fetch_products_data, from raw_data on (lines 27-34).
fetch_products_data(raw_data) ==
  IF HasDataRows(raw_data) THEN
    LET df  == RawFrame(raw_data)
        err == FirstError(df, << <<"Date Uploaded:", "ValueError">>,
                                 <<"eBay Price", "AttributeError">>,
                                 <<"Profit Per Product Present", "AttributeError">> >>)
        du  == Column(df, "Date Uploaded:")
        ep  == Column(df, "eBay Price")
        pp  == Column(df, "Profit Per Product Present")
    IN IF err.exc # "" THEN Raised(err)
       ELSE Returned([columns |-> ProductsColumns,
                      rows |-> [r \in 1..Len(df.rows) |->
                         [c \in {"Date Uploaded", "eBay Price", "Profit Per Product Present"} |->
                            CASE c = "Date Uploaded" -> ToDatetime(du[r])
                              [] c = "eBay Price" -> ToNumeric(StripNonNumeric(ep[r]))
                              [] OTHER -> Div100(ToNumeric(StripPercent(pp[r])))]]])
  ELSE Returned(EmptyDataFrame)

\* fetch_orders_data, from raw_data on (lines 40-49).
fetch_orders_data(raw_data) ==
  IF HasDataRows(raw_data) THEN
    LET df  == RawFrame(raw_data)
        err == FirstError(df, << <<"Date Of Purchase", "ValueError">>,
                                 <<"eBay Price", "AttributeError">>,
                                 <<"Profit Per Sale USD", "AttributeError">>,
                                 <<"Total Sales", "AttributeError">>,
                                 <<"Total Profits", "AttributeError">> >>)
        dp  == Column(df, "Date Of Purchase")
    IN IF err.exc # "" THEN Raised(err)
       ELSE Returned([columns |-> OrdersColumns,
                      rows |-> [r \in 1..Len(df.rows) |->
                         [c \in {"Date Of Purchase", "eBay Price", "Profit Per Sale USD",
                                 "Total Sales", "Total Profits"} |->
                            IF c = "Date Of Purchase" THEN ToDatetime(dp[r])
                            ELSE ToNumeric(StripNonNumeric(Column(df, c)[r]))]]])
  ELSE Returned(EmptyDataFrame)

\* fetch_hours_data, from raw_data on (lines 55-61).
fetch_hours_data(raw_data) ==
  IF HasDataRows(raw_data) THEN
    LET df  == RawFrame(raw_data)
        err == FirstError(df, << <<"Date:", "ValueError">>, <<"Hours:", "TypeError">> >>)
        dc  == Column(df, "Date:")
        hc  == Column(df, "Hours:")
    IN IF err.exc # "" THEN Raised(err)
       ELSE Returned([columns |-> HoursColumns,
                      rows |-> [r \in 1..Len(df.rows) |->
                         [c \in {"Date", "Hours"} |->
                            IF c = "Date" THEN ToDatetime(dc[r]) ELSE ToNumeric(hc[r])]]])
  ELSE Returned(EmptyDataFrame)

(***************************************************************************)
(* Monthly aggregation and charts                                          *)
(***************************************************************************)

\* Series.dt.to_period('M') on one cell: the month ordinal (months since
\* January 1970), which is what orders the groups.
ToPeriodM(dt) == (dt.y - 1970) * 12 + (dt.m - 1)

\* The ascending sequence of the elements of a finite set of integers.
RECURSIVE SortedSeq(_)
SortedSeq(S) ==
  IF S = {} THEN <<>>
  ELSE LET lo == CHOOSE x \in S : \A y \in S : x <= y
       IN <<lo>> \o SortedSeq(S \ {lo})

\* Group keys that keep the rows without a date (dropna=False).
GroupKeysWithNaT(df, date) ==
  SortedSeq({ToPeriodM(df.rows[r][date]) : r \in 1..Len(df.rows)})

\* The group keys of df.groupby(df[date].dt.to_period('M')): the months of
\* the rows whose date is not NaT (dropna), each once, ascending (sort).
GroupKeys(df, date) ==
  SortedSeq({ToPeriodM(df.rows[r][date]) : r \in {i \in 1..Len(df.rows) : df.rows[i][date] # NaT}})

\* The row numbers of one group.
GroupRows(df, date, k) ==
  {r \in 1..Len(df.rows) : df.rows[r][date] # NaT /\ ToPeriodM(df.rows[r][date]) = k}

\* Sum of the values of a column over a set of rows, NaN skipped.
RECURSIVE SumOver(_, _, _)
SumOver(df, col, R) ==
  IF R = {} THEN 0
  ELSE LET r == CHOOSE x \in R : TRUE
           x == df.rows[r][col]
       IN (IF x.nan THEN 0 ELSE x.v) + SumOver(df, col, R \ {r})

\* groupby(...).size(): rows per month.
GroupSize(df, date) ==
  LET ks == GroupKeys(df, date)
  IN [i \in 1..Len(ks) |-> [key |-> ks[i], value |-> Cardinality(GroupRows(df, date, ks[i]))]]

\* groupby(...)[col].count(): rows per month whose col is not NaN.
GroupCount(df, date, col) ==
  LET ks == GroupKeys(df, date)
  IN [i \in 1..Len(ks) |->
        [key |-> ks[i],
         value |-> Cardinality({r \in GroupRows(df, date, ks[i]) : ~df.rows[r][col].nan})]]

\* groupby(...)[col].sum(): sum per month, NaN skipped.
GroupSum(df, date, col) ==
  LET ks == GroupKeys(df, date)
  IN [i \in 1..Len(ks) |->
        [key |-> ks[i], value |-> SumOver(df, col, GroupRows(df, date, ks[i]))]]

\* data.index.astype(str) on one month key: its year and month ("YYYY-MM").
PeriodStr(k) == [y |-> 1970 + (k \div 12), m |-> (k % 12) + 1]

\* What create_graph returns for an empty series.
None == [none |-> TRUE]

\* A chart drawn whatever the series holds.
create_graph_always(data, title) ==
  [none |-> FALSE,
   title |-> title,
   x |-> [i \in 1..Len(data) |-> PeriodStr(data[i].key)],
   y |-> [i \in 1..Len(data) |-> data[i].value]]

\* create_graph: None for an empty series, otherwise the image buffer of the
\* chart (here: what it draws).
create_graph(data, title) ==
  IF Len(data) = 0 THEN None
  ELSE [none |-> FALSE,
        title |-> title,
        x |-> [i \in 1..Len(data) |-> PeriodStr(data[i].key)],
        y |-> [i \in 1..Len(data) |-> data[i].value]]

(***************************************************************************)
(* Report                                                                  *)
(***************************************************************************)

\* Series.count() in the place of Series.sum().
ColumnCount(df, col) == Cardinality({r \in 1..Len(df.rows) : ~df.rows[r][col].nan})

\* Series.sum() of a column: NaN skipped, 0 when nothing is left.
ColumnSum(df, col) == SumOver(df, col, 1..Len(df.rows))

\* The ":.2f" format of a number: hundredths, rounded half to even.
Fmt2(v) ==
  LET step == Unit \div 100
      q    == v \div step
      r    == v % step
  IN IF 2 * r > step THEN q + 1
     ELSE IF 2 * r < step THEN q
     ELSE IF q % 2 = 0 THEN q ELSE q + 1

\* if graph: doc.add_picture(graph, ...)
AddPicture(graph) == IF graph.none THEN <<>> ELSE << [type |-> "picture", graph |-> graph] >>

\* The column lookups generate_report makes without a guard of their own:
\* table[col] raises KeyError when a non-empty table lacks the column.
ReportLookups(products, orders, hours) ==
  (IF ~IsEmpty(products) THEN << <<products, "Date Uploaded">> >> ELSE <<>>)
  \o (IF ~IsEmpty(orders)
      THEN << <<orders, "Date Of Purchase">>, <<orders, "eBay Price">>,
              <<orders, "Profit Per Sale USD">> >>
      ELSE <<>>)
  \o (IF ~IsEmpty(hours) THEN << <<hours, "Date">>, <<hours, "Hours">> >> ELSE <<>>)

\* total = table[col].sum() if col in table else 0
Total(df, col) == IF HasColumn(df, col) THEN ColumnSum(df, col) ELSE 0

\* The summary paragraphs of generate_report (lines 89-96).
Summary(orders, hours) ==
  << [type |-> "paragraph", text |-> "Total Sales", value |-> Fmt2(Total(orders, "Total Sales"))],
     [type |-> "paragraph", text |-> "Total Profit", value |-> Fmt2(Total(orders, "Total Profits"))],
     [type |-> "paragraph", text |-> "Total Hours Worked", value |-> Fmt2(Total(hours, "Hours"))] >>

\* The chart sections of generate_report (lines 101-118).
Graphs(products, orders, hours) ==
  (IF ~IsEmpty(products)
   THEN AddPicture(create_graph(GroupSize(products, "Date Uploaded"),
                                "Products Uploaded per Month"))
   ELSE <<>>)
  \o (IF ~IsEmpty(orders)
      THEN AddPicture(create_graph(GroupCount(orders, "Date Of Purchase", "eBay Price"),
                                   "Sales per Month"))
           \o AddPicture(create_graph(GroupSum(orders, "Date Of Purchase", "Profit Per Sale USD"),
                                      "Profit per Month"))
      ELSE <<>>)
  \o (IF ~IsEmpty(hours)
      THEN AddPicture(create_graph(GroupSum(hours, "Date", "Hours"), "Hours Worked per Month"))
      ELSE <<>>)

\* generate_report: the document as the sequence of its elements, or the
\* exception of the first failing column lookup.
generate_report(client_name, products, orders, hours) ==
  LET looks == ReportLookups(products, orders, hours)
      bad   == {i \in 1..Len(looks) : ~HasColumn(looks[i][1], looks[i][2])}
      i0    == CHOOSE i \in bad : \A j \in bad : i <= j
  IN IF bad # {}
     THEN [raised |-> TRUE, exc |-> "KeyError", arg |-> looks[i0][2], doc |-> <<>>]
     ELSE [raised |-> FALSE, exc |-> "", arg |-> "",
           doc |-> << [type |-> "heading", text |-> "Report for", value |-> client_name] >>
                   \o Summary(orders, hours)
                   \o << [type |-> "heading", text |-> "Graphs", value |-> ""] >>
                   \o Graphs(products, orders, hours)]

(***************************************************************************)
(* The remote spreadsheets: bounded inputs                                 *)
(***************************************************************************)

\* Cells.
c15Jan24 == <<"1", "5", "/", "0", "1", "/", "2", "0", "2", "4">>
c02Jan24 == <<"0", "2", "/", "0", "1", "/", "2", "0", "2", "4">>
c31Dec23 == <<"3", "1", "/", "1", "2", "/", "2", "0", "2", "3">>
c30Feb24 == <<"3", "0", "/", "0", "2", "/", "2", "0", "2", "4">>
cNoDate  == <<"n", "/", "a">>
cBlank   == <<>>
cUsd1250 == <<"$", "1", "2", ".", "5", "0">>
cUsd300  == <<"$", "3", ".", "0", "0">>
cThousand == <<"1", ",", "0", "0", "0", ".", "2", "5">>
cTwoDots == <<"1", ".", "2", ".", "3">>
c45Pct   == <<"4", "5", "%">>
c7Half   == <<"7", ".", "5">>
c8       == <<"8">>
cText    == <<"a", "b", "c">>

Kinds == <<"PRODUCTS", "ORDERS", "HOURSWORKED">>

\* Headers of the right shape, one with a required column renamed, one with
\* a required column twice.  Every header has one more column than the
\* worksheet's required ones, and every data row as many cells as the header
\* (get_all_values returns a rectangular grid).
GoodHeader(kind) ==
  CASE kind = "PRODUCTS" -> <<"Date Uploaded:", "eBay Price", "Profit Per Product Present", "Notes">>
    [] kind = "ORDERS" -> <<"Date Of Purchase", "eBay Price", "Profit Per Sale USD",
                            "Total Sales", "Total Profits", "Notes">>
    [] kind = "HOURSWORKED" -> <<"Date:", "Hours:", "Notes">>

LackingHeader(kind) ==
  CASE kind = "PRODUCTS" -> <<"Date Uploaded", "eBay Price", "Profit Per Product Present", "Notes">>
    [] kind = "ORDERS" -> <<"Date Of Purchase", "eBay Price", "Profit Per Sale USD",
                            "Sales", "Total Profits", "Notes">>
    [] kind = "HOURSWORKED" -> <<"Date:", "Hours", "Notes">>

TwiceHeader(kind) ==
  CASE kind = "PRODUCTS" -> <<"Date Uploaded:", "eBay Price", "Profit Per Product Present", "eBay Price">>
    [] kind = "ORDERS" -> <<"Date Of Purchase", "eBay Price", "Profit Per Sale USD",
                            "Total Sales", "Total Profits", "Date Of Purchase">>
    [] kind = "HOURSWORKED" -> <<"Date:", "Hours:", "Hours:">>

Headers(kind) == {GoodHeader(kind), LackingHeader(kind), TwiceHeader(kind)}

\* Data rows: parseable and unparseable cells, two rows of one month, rows
\* of different months, rows without a date.
DataRows(kind) ==
  CASE kind = "PRODUCTS" ->
         { <<c15Jan24, cUsd1250, c45Pct, cText>>,
           <<c31Dec23, cBlank, cText, cBlank>>,
           <<cNoDate, cTwoDots, c45Pct, cText>>,
           <<c02Jan24, cUsd300, cBlank, c8>> }
    [] kind = "ORDERS" ->
         { <<c15Jan24, cUsd1250, cUsd300, cThousand, cUsd1250, cText>>,
           <<c31Dec23, cBlank, cTwoDots, cText, cBlank, cBlank>>,
           <<c30Feb24, cUsd300, cUsd1250, cUsd300, cTwoDots, cText>>,
           <<c02Jan24, cText, cBlank, cUsd1250, cUsd300, c8>> }
    [] kind = "HOURSWORKED" ->
         { <<c15Jan24, c7Half, cText>>,
           <<c31Dec23, cText, cBlank>>,
           <<cBlank, c8, cText>>,
           <<c02Jan24, cUsd300, c8>> }

\* Largest number of data rows of a generated grid.
MaxRows == 2

\* Sequences over S of length at most n.
RECURSIVE SeqsUpTo(_, _)
SeqsUpTo(S, n) ==
  IF n = 0 THEN {<<>>}
  ELSE LET shorter == SeqsUpTo(S, n - 1)
       IN shorter \cup {Append(q, x) : q \in {t \in shorter : Len(t) = n - 1}, x \in S}

\* The grids a worksheet may hold: no row at all, or a header with up to
\* MaxRows data rows.
Grids(kind) ==
  {<<>>} \cup {<<h>> \o rows : h \in Headers(kind), rows \in SeqsUpTo(DataRows(kind), MaxRows)}

\* A grid with data in two months, out of chronological order.
SampleGrid(kind) ==
  CASE kind = "PRODUCTS" ->
         <<GoodHeader(kind), <<c15Jan24, cUsd1250, c45Pct, cText>>, <<c31Dec23, cBlank, cText, cBlank>> >>
    [] kind = "ORDERS" ->
         <<GoodHeader(kind), <<c15Jan24, cUsd1250, cUsd300, cThousand, cUsd1250, cText>>,
           <<c31Dec23, cBlank, cTwoDots, cText, cBlank, cBlank>> >>
    [] kind = "HOURSWORKED" ->
         <<GoodHeader(kind), <<c15Jan24, c7Half, cText>>, <<c31Dec23, cText, cBlank>> >>

\* retries=5, delay=2 of safe_fetch_worksheet.
DefaultRetries == 5

DefaultDelay == 2

\* A worksheet of a spreadsheet: whether sheet.worksheet(name) finds it, how
\* many get_all_values calls of one fetch raise before one returns, and the
\* grid it then returns.
Worksheet(fails, grid) == [found |-> TRUE, fails |-> fails, grid |-> grid]

NoWorksheet == [found |-> FALSE, fails |-> 0, grid |-> <<>>]

\* A spreadsheet behind a link: whether open_by_url resolves it, its title,
\* and its three worksheets.
Spreadsheet(title, p, o, h) ==
  [resolves |-> TRUE, title |-> title,
   sheets |-> [k \in {"PRODUCTS", "ORDERS", "HOURSWORKED"} |->
                 CASE k = "PRODUCTS" -> p [] k = "ORDERS" -> o [] OTHER -> h]]

Unresolvable ==
  [resolves |-> FALSE, title |-> "",
   sheets |-> [k \in {"PRODUCTS", "ORDERS", "HOURSWORKED"} |-> NoWorksheet]]

Good(kind) == Worksheet(0, SampleGrid(kind))

\* The spreadsheets of the batch runs: a sound one, one that does not
\* resolve, one whose PRODUCTS header lacks a column, two pairs that differ
\* only in worksheets whose every call raises in one and that hold no row in
\* the other, one without its ORDERS worksheet, one whose HOURSWORKED header
\* lacks a column.
Catalogue ==
  [u \in {"u1", "u2", "u3", "u4", "u5", "u6", "u7", "u8", "u9"} |->
     CASE u = "u1" -> Spreadsheet("Acme", Good("PRODUCTS"), Good("ORDERS"), Good("HOURSWORKED"))
       [] u = "u2" -> Unresolvable
       [] u = "u3" -> Spreadsheet("Bolt",
                        Worksheet(0, <<LackingHeader("PRODUCTS"), <<c15Jan24, cUsd1250, c45Pct, cText>> >>),
                        Good("ORDERS"), Good("HOURSWORKED"))
       [] u = "u4" -> Spreadsheet("Core", Worksheet(DefaultRetries, SampleGrid("PRODUCTS")),
                        Worksheet(DefaultRetries, SampleGrid("ORDERS")), Good("HOURSWORKED"))
       [] u = "u5" -> Spreadsheet("Core", Worksheet(0, <<>>), Worksheet(0, <<>>), Good("HOURSWORKED"))
       [] u = "u6" -> Spreadsheet("Dune", Worksheet(0, <<GoodHeader("PRODUCTS")>>),
                        Worksheet(2, SampleGrid("ORDERS")),
                        Worksheet(DefaultRetries + 1, SampleGrid("HOURSWORKED")))
       [] u = "u7" -> Spreadsheet("Dune", Worksheet(0, <<GoodHeader("PRODUCTS")>>),
                        Worksheet(2, SampleGrid("ORDERS")), Worksheet(0, <<>>))
       [] u = "u8" -> Spreadsheet("Echo", Good("PRODUCTS"), NoWorksheet, Good("HOURSWORKED"))
       [] u = "u9" -> Spreadsheet("Fern", Good("PRODUCTS"), Good("ORDERS"),
                        Worksheet(1, <<LackingHeader("HOURSWORKED"), <<c15Jan24, c7Half, cText>>,
                                       <<c31Dec23, c8, cText>> >>)) ]

(***************************************************************************)
(* State                                                                   *)
(***************************************************************************)

VARIABLES
  remote,             \* link -> spreadsheet: the remote service
  sheet_links_input,  \* the lines of the text area ("" is a blank line)
  sheet_links,        \* the non-blank lines, in order
  idx,                \* position in sheet_links of the link in process (from 1)
  pc,                 \* idle, loop, worksheet, fetch, normalize, report, done
  client_name,        \* locals of the loop body; they survive an iteration
  products,
  orders,
  hours,
  worksheet,          \* the worksheet being fetched
  retries,            \* locals of safe_fetch_worksheet
  attempt,
  delay,
  raw_data,           \* what safe_fetch_worksheet returned
  events              \* what the run did, in order: remote calls, sleeps,
                      \* and the front end's writes, warnings, errors and
                      \* download buttons

vars == <<remote, sheet_links_input, sheet_links, idx, pc, client_name, products,
          orders, hours, worksheet, retries, attempt, delay, raw_data, events>>

loop_locals == <<client_name, products, orders, hours>>

fetch_locals == <<retries, attempt, delay>>

inputs == <<remote, sheet_links_input>>

\* Largest number of lines pasted into the text area.
MaxLinks == 3

Links == DOMAIN Catalogue

\* [link.strip() for link in ... if link.strip()]: blank lines are dropped.
NonBlank(lines) == SelectSeq(lines, LAMBDA l : l # "")

Init ==
  /\ remote = Catalogue
  /\ sheet_links_input \in SeqsUpTo(Links \cup {""}, MaxLinks)
  /\ sheet_links = <<>>
  /\ idx = 0
  /\ pc = "idle"
  /\ client_name = ""
  /\ products = EmptyDataFrame
  /\ orders = EmptyDataFrame
  /\ hours = EmptyDataFrame
  /\ worksheet = ""
  /\ retries = 0
  /\ attempt = 0
  /\ delay = 0
  /\ raw_data = <<>>
  /\ events = <<>>

(***************************************************************************)
(* The batch loop (lines 139-160)                                          *)
(***************************************************************************)

\* The link in process and its spreadsheet.
sheet_url == sheet_links[idx]

client_sheet == remote[sheet_url]

\* except Exception as e: st.error(...); the loop goes on with the next link.
Except(exc, arg) ==
  /\ events' = Append(events, [ev |-> "error", link |-> sheet_url, exc |-> exc, arg |-> arg])
  /\ idx' = idx + 1
  /\ pc' = "loop"

\* if st.button("Generate Reports"): sheet_links = [...]
Button ==
  /\ pc = "idle"
  /\ sheet_links' = NonBlank(sheet_links_input)
  /\ idx' = 1
  /\ pc' = "loop"
  /\ UNCHANGED <<inputs, loop_locals, worksheet, fetch_locals, raw_data, events>>

\* for idx, sheet_url in enumerate(sheet_links): st.write(...);
\* client.open_by_url(sheet_url) resolves; client_name = client_sheet.title.
OpenByUrl ==
  /\ pc = "loop" /\ idx <= Len(sheet_links)
  /\ client_sheet.resolves
  /\ events' = Append(events, [ev |-> "write", link |-> idx])
  /\ client_name' = client_sheet.title
  /\ worksheet' = Kinds[1]
  /\ pc' = "worksheet"
  /\ UNCHANGED <<inputs, sheet_links, idx, products, orders, hours, fetch_locals, raw_data>>

\* A failure to resolve that ends the loop.
OpenByUrlAborts ==
  /\ pc = "loop" /\ idx <= Len(sheet_links)
  /\ ~client_sheet.resolves
  /\ events' = events \o << [ev |-> "write", link |-> idx],
                            [ev |-> "error", link |-> sheet_url, exc |-> "SpreadsheetNotFound",
                             arg |-> ""] >>
  /\ pc' = "done"
  /\ UNCHANGED <<inputs, sheet_links, idx, loop_locals, worksheet, fetch_locals, raw_data>>

\* client.open_by_url(sheet_url) raises.
OpenByUrlRaises ==
  /\ pc = "loop" /\ idx <= Len(sheet_links)
  /\ ~client_sheet.resolves
  /\ events' = events \o << [ev |-> "write", link |-> idx],
                            [ev |-> "error", link |-> sheet_url, exc |-> "SpreadsheetNotFound",
                             arg |-> ""] >>
  /\ idx' = idx + 1
  /\ pc' = "loop"
  /\ UNCHANGED <<inputs, sheet_links, loop_locals, worksheet, fetch_locals, raw_data>>

\* sheet.worksheet(name) finds the worksheet; safe_fetch_worksheet(worksheet)
\* starts with its defaults.
WorksheetFound ==
  /\ pc = "worksheet"
  /\ client_sheet.sheets[worksheet].found
  /\ retries' = DefaultRetries
  /\ delay' = DefaultDelay
  /\ attempt' = 0
  /\ pc' = "fetch"
  /\ UNCHANGED <<inputs, sheet_links, idx, loop_locals, worksheet, raw_data, events>>

\* sheet.worksheet(name) raises.
WorksheetNotFound ==
  /\ pc = "worksheet"
  /\ ~client_sheet.sheets[worksheet].found
  /\ Except("WorksheetNotFound", worksheet)
  /\ UNCHANGED <<inputs, sheet_links, loop_locals, worksheet, fetch_locals, raw_data>>

(***************************************************************************)
(* safe_fetch_worksheet (lines 13-21)                                      *)
(***************************************************************************)

\* Whether the get_all_values call of this attempt raises: the first
\* `fails` calls of a fetch do.
CallRaises == attempt < client_sheet.sheets[worksheet].fails

\* try: return worksheet.get_all_values()
FetchReturns ==
  /\ pc = "fetch" /\ attempt < retries
  /\ ~CallRaises
  /\ events' = Append(events, [ev |-> "call", worksheet |-> worksheet])
  /\ raw_data' = client_sheet.sheets[worksheet].grid
  /\ pc' = "normalize"
  /\ UNCHANGED <<inputs, sheet_links, idx, loop_locals, worksheet, fetch_locals>>

\* A backoff that adds instead of doubling.
NextDelayLinear(d) == d + 2

\* The delay of the next attempt: delay *= 2.
NextDelay(d) == 2 * d

\* A retry that sleeps without telling the caller.
FetchRaisesQuiet ==
  /\ pc = "fetch" /\ attempt < retries
  /\ CallRaises
  /\ events' = events \o << [ev |-> "call", worksheet |-> worksheet],
                            [ev |-> "sleep", delay |-> delay] >>
  /\ delay' = NextDelay(delay)
  /\ attempt' = attempt + 1
  /\ UNCHANGED <<inputs, sheet_links, idx, pc, loop_locals, worksheet, retries, raw_data>>

\* except Exception as e: st.warning(...); time.sleep(delay); delay *= 2
FetchRaises ==
  /\ pc = "fetch" /\ attempt < retries
  /\ CallRaises
  /\ events' = events \o << [ev |-> "call", worksheet |-> worksheet],
                            [ev |-> "warning", attempt |-> attempt + 1],
                            [ev |-> "sleep", delay |-> delay] >>
  /\ delay' = NextDelay(delay)
  /\ attempt' = attempt + 1
  /\ UNCHANGED <<inputs, sheet_links, idx, pc, loop_locals, worksheet, retries, raw_data>>

\* A fetch that raises once its attempts are used up.
FetchExhaustedRaises ==
  /\ pc = "fetch" /\ attempt >= retries
  /\ Except("Exception", worksheet)
  /\ UNCHANGED <<inputs, sheet_links, loop_locals, worksheet, fetch_locals, raw_data>>

\* for attempt in range(retries) is over: return []
FetchExhausted ==
  /\ pc = "fetch" /\ attempt >= retries
  /\ raw_data' = <<>>
  /\ pc' = "normalize"
  /\ UNCHANGED <<inputs, sheet_links, idx, loop_locals, worksheet, fetch_locals, events>>

(***************************************************************************)
(* The body of the loop after the fetch (lines 27-34, 40-49, 55-61, 147-158)*)
(***************************************************************************)

\* The normalizer of a worksheet, applied to what the fetch returned.
Normalizer(kind, grid) ==
  CASE kind = "PRODUCTS" -> fetch_products_data(grid)
    [] kind = "ORDERS" -> fetch_orders_data(grid)
    [] kind = "HOURSWORKED" -> fetch_hours_data(grid)

\* The rest of fetch_*_data returns; the loop body goes on with the next
\* worksheet, or with generate_report after the third.
NormalizeReturns ==
  /\ pc = "normalize"
  /\ ~Normalizer(worksheet, raw_data).raised
  /\ LET t == Normalizer(worksheet, raw_data).table
     IN /\ products' = IF worksheet = "PRODUCTS" THEN t ELSE products
        /\ orders' = IF worksheet = "ORDERS" THEN t ELSE orders
        /\ hours' = IF worksheet = "HOURSWORKED" THEN t ELSE hours
  /\ worksheet' = CASE worksheet = "PRODUCTS" -> "ORDERS"
                    [] worksheet = "ORDERS" -> "HOURSWORKED"
                    [] OTHER -> worksheet
  /\ pc' = IF worksheet = "HOURSWORKED" THEN "report" ELSE "worksheet"
  /\ UNCHANGED <<inputs, sheet_links, idx, client_name, fetch_locals, raw_data, events>>

\* A failing normalizer whose failure is swallowed: the table is empty and
\* the loop body goes on.
NormalizeSwallows ==
  /\ pc = "normalize"
  /\ Normalizer(worksheet, raw_data).raised
  /\ products' = IF worksheet = "PRODUCTS" THEN EmptyDataFrame ELSE products
  /\ orders' = IF worksheet = "ORDERS" THEN EmptyDataFrame ELSE orders
  /\ hours' = IF worksheet = "HOURSWORKED" THEN EmptyDataFrame ELSE hours
  /\ worksheet' = CASE worksheet = "PRODUCTS" -> "ORDERS"
                    [] worksheet = "ORDERS" -> "HOURSWORKED"
                    [] OTHER -> worksheet
  /\ pc' = IF worksheet = "HOURSWORKED" THEN "report" ELSE "worksheet"
  /\ UNCHANGED <<inputs, sheet_links, idx, client_name, fetch_locals, raw_data, events>>

\* The rest of fetch_*_data raises.
NormalizeRaises ==
  /\ pc = "normalize"
  /\ Normalizer(worksheet, raw_data).raised
  /\ Except(Normalizer(worksheet, raw_data).exc, Normalizer(worksheet, raw_data).arg)
  /\ UNCHANGED <<inputs, sheet_links, loop_locals, worksheet, fetch_locals, raw_data>>

\* report_buffer = generate_report(...); st.download_button(...)
GenerateReport ==
  /\ pc = "report"
  /\ LET r == generate_report(client_name, products, orders, hours)
     IN IF r.raised
        THEN events' = Append(events, [ev |-> "error", link |-> sheet_url, exc |-> r.exc,
                                       arg |-> r.arg])
        ELSE events' = Append(events, [ev |-> "download", name |-> client_name, data |-> r.doc])
  /\ idx' = idx + 1
  /\ pc' = "loop"
  /\ UNCHANGED <<inputs, sheet_links, loop_locals, worksheet, fetch_locals, raw_data>>

\* The for loop is over.
Finish ==
  /\ pc = "loop" /\ idx > Len(sheet_links)
  /\ pc' = "done"
  /\ UNCHANGED <<inputs, sheet_links, idx, loop_locals, worksheet, fetch_locals, raw_data, events>>

Next ==
  \/ Button
  \/ OpenByUrl
  \/ OpenByUrlRaises
  \/ WorksheetFound
  \/ WorksheetNotFound
  \/ FetchReturns
  \/ FetchRaises
  \/ FetchExhausted
  \/ NormalizeReturns
  \/ NormalizeRaises
  \/ GenerateReport
  \/ Finish

Spec == Init /\ [][Next]_vars

(***************************************************************************)
(* safe_fetch_worksheet alone, for any retry budget and initial delay      *)
(***************************************************************************)

\* Largest retry budget and largest initial delay of a fetch.
MaxRetries == 4

MaxDelay == 3

\* One call safe_fetch_worksheet(worksheet, retries=n, delay=d) on a
\* worksheet whose first f calls raise; the first event records the call's
\* arguments.
InitFetch ==
  /\ \E f \in 0..MaxRetries, g \in {<<>>, SampleGrid("PRODUCTS")} :
       remote = [u \in {"w"} |-> Spreadsheet("W", Worksheet(f, g), NoWorksheet, NoWorksheet)]
  /\ sheet_links_input = <<"w">>
  /\ sheet_links = <<"w">>
  /\ idx = 1
  /\ pc = "fetch"
  /\ client_name = "W"
  /\ products = EmptyDataFrame
  /\ orders = EmptyDataFrame
  /\ hours = EmptyDataFrame
  /\ worksheet = "PRODUCTS"
  /\ retries \in 0..MaxRetries
  /\ delay \in 1..MaxDelay
  /\ attempt = 0
  /\ raw_data = <<>>
  /\ events = << [ev |-> "safe_fetch_worksheet", retries |-> retries, delay |-> delay] >>

NextFetch ==
  \/ FetchReturns
  \/ FetchRaises
  \/ FetchExhausted

SpecFetch == InitFetch /\ [][NextFetch]_vars

(***************************************************************************)
(* One spreadsheet whose worksheets return the first time, for any grid    *)
(***************************************************************************)

\* The grids of the two worksheets beside the one that ranges over Grids.
FewGrids(kind) == {<<>>, SampleGrid(kind)}

GridTriples ==
  {<<p, o, h>> : p \in Grids("PRODUCTS"), o \in FewGrids("ORDERS"), h \in FewGrids("HOURSWORKED")}
  \cup {<<p, o, h>> : p \in FewGrids("PRODUCTS"), o \in Grids("ORDERS"), h \in FewGrids("HOURSWORKED")}
  \cup {<<p, o, h>> : p \in FewGrids("PRODUCTS"), o \in FewGrids("ORDERS"), h \in Grids("HOURSWORKED")}

InitNorm ==
  /\ \E t \in GridTriples :
       remote = [u \in {"g"} |->
                   Spreadsheet("G", Worksheet(0, t[1]), Worksheet(0, t[2]), Worksheet(0, t[3]))]
  /\ sheet_links_input = <<"g">>
  /\ sheet_links = <<>>
  /\ idx = 0
  /\ pc = "idle"
  /\ client_name = ""
  /\ products = EmptyDataFrame
  /\ orders = EmptyDataFrame
  /\ hours = EmptyDataFrame
  /\ worksheet = ""
  /\ retries = 0
  /\ attempt = 0
  /\ delay = 0
  /\ raw_data = <<>>
  /\ events = <<>>

NextNorm ==
  \/ Button
  \/ OpenByUrl
  \/ WorksheetFound
  \/ FetchReturns
  \/ NormalizeReturns
  \/ NormalizeRaises
  \/ GenerateReport
  \/ Finish

SpecNorm == InitNorm /\ [][NextNorm]_vars

(***************************************************************************)
(* Properties of safe_fetch_worksheet (under SpecFetch)                    *)
(***************************************************************************)

\* The arguments of the fetch under test and what it did since.
FetchArgs == events[1]

FetchLog == Tail(events)

FetchFails == remote["w"].sheets["PRODUCTS"].fails

FetchGrid == remote["w"].sheets["PRODUCTS"].grid

OfKind(log, kind) == SelectSeq(log, LAMBDA e : e.ev = kind)

SleepDelays(log) == [i \in 1..Len(OfKind(log, "sleep")) |-> OfKind(log, "sleep")[i].delay]

\* k failed attempts, each a call, then the warning, then the sleep of the
\* delay d * 2^(i-1).
FailedAttempts(k, d) ==
  [j \in 1..(3 * k) |->
     LET i == ((j - 1) \div 3) + 1
     IN CASE j % 3 = 1 -> [ev |-> "call", worksheet |-> "PRODUCTS"]
          [] j % 3 = 2 -> [ev |-> "warning", attempt |-> i]
          [] OTHER -> [ev |-> "sleep", delay |-> d * 2^(i - 1)]]

\* C1: with a retry budget n >= 1 and initial delay d, when every call
\* raises, safe_fetch_worksheet returns after exactly n calls and exactly n
\* sleeps of d, 2d, ..., d*2^(n-1), in that order, and what it returns is the
\* grid without rows.
C1_RetryExhaustion ==
  (pc = "normalize" /\ FetchArgs.retries >= 1 /\ FetchFails >= FetchArgs.retries) =>
     /\ Len(OfKind(FetchLog, "call")) = FetchArgs.retries
     /\ SleepDelays(FetchLog) =
          [i \in 1..FetchArgs.retries |-> FetchArgs.delay * 2^(i - 1)]
     /\ raw_data = <<>>

\* Three retries, every call raising, initial delay 3: returned after the
\* sleeps 3, 6, 12.
C1_Witness ==
  /\ pc = "normalize"
  /\ FetchArgs.retries = 3 /\ FetchArgs.delay = 3 /\ FetchFails >= 3
  /\ Len(OfKind(FetchLog, "call")) = 3
  /\ SleepDelays(FetchLog) = <<3, 6, 12>>
  /\ raw_data = <<>>

\* C9: when the first k-1 calls raise and call k returns (k <= retries),
\* safe_fetch_worksheet returns the grid of call k, and all it did is: for
\* each failed attempt the call, one warning, one sleep of the current
\* delay, the delay doubling each time; then the call that returned, and
\* nothing after it.
C9_SuccessAfterFailures ==
  (pc = "normalize" /\ FetchFails < FetchArgs.retries) =>
     /\ raw_data = FetchGrid
     /\ FetchLog = FailedAttempts(FetchFails, FetchArgs.delay)
                   \o << [ev |-> "call", worksheet |-> "PRODUCTS"] >>
     /\ delay = FetchArgs.delay * 2^FetchFails

\* Two failed attempts, then the third call returns a grid with data rows.
C9_Witness ==
  /\ pc = "normalize"
  /\ FetchFails = 2 /\ FetchArgs.retries >= 3 /\ FetchArgs.delay = 1
  /\ Len(raw_data) = 3
  /\ Len(OfKind(FetchLog, "call")) = 3
  /\ SleepDelays(FetchLog) = <<1, 2>>

(***************************************************************************)
(* Properties of the batch loop (under Spec)                               *)
(***************************************************************************)

\* The outcomes of the run so far, one per processed link: a download
\* button with the report, or an error.
Outcomes == SelectSeq(events, LAMBDA e : e.ev \in {"download", "error"})

ErrorOutcome(u, exc, arg) == [ev |-> "error", link |-> u, exc |-> exc, arg |-> arg]

\* What a fetch of a worksheet hands to the normalizer.
Fetched(ws) == IF ws.fails >= DefaultRetries THEN <<>> ELSE ws.grid

\* The first worksheet, in the order of the loop body, that is not found or
\* whose normalizer raises; 0 when there is none.
FirstFailing(s) ==
  LET bad == {n \in 1..3 : \/ ~s.sheets[Kinds[n]].found
                           \/ Normalizer(Kinds[n], Fetched(s.sheets[Kinds[n]])).raised}
  IN IF bad = {} THEN 0 ELSE CHOOSE n \in bad : \A m \in bad : n <= m

\* The outcome of a link as a function of its spreadsheet alone: what a
\* batch without any other link gives for it.
SoloOutcome(u) ==
  LET s == remote[u]
      n == FirstFailing(s)
      t(k) == Normalizer(k, Fetched(s.sheets[k])).table
      r == generate_report(s.title, t("PRODUCTS"), t("ORDERS"), t("HOURSWORKED"))
  IN IF ~s.resolves THEN ErrorOutcome(u, "SpreadsheetNotFound", "")
     ELSE IF n # 0 /\ ~s.sheets[Kinds[n]].found THEN ErrorOutcome(u, "WorksheetNotFound", Kinds[n])
     ELSE IF n # 0
          THEN ErrorOutcome(u, Normalizer(Kinds[n], Fetched(s.sheets[Kinds[n]])).exc,
                            Normalizer(Kinds[n], Fetched(s.sheets[Kinds[n]])).arg)
     ELSE IF r.raised THEN ErrorOutcome(u, r.exc, r.arg)
     ELSE [ev |-> "download", name |-> s.title, data |-> r.doc]

\* C2: the loop gives exactly one outcome per link, in the order of the
\* links; the outcome of a link that does not resolve is an error carrying
\* that link and a message; the outcome of every other link is the one it
\* has in a batch of its own; and the loop ends only after the last link.
C2_BatchIsolation ==
  /\ pc = "loop" => Len(Outcomes) = idx - 1
  /\ pc = "done" =>
       /\ idx = Len(sheet_links) + 1
       /\ Len(Outcomes) = Len(sheet_links)
       /\ \A i \in 1..Len(sheet_links) :
            /\ ~remote[sheet_links[i]].resolves =>
                 /\ Outcomes[i].ev = "error"
                 /\ Outcomes[i].link = sheet_links[i]
                 /\ Outcomes[i].exc # ""
            /\ Outcomes[i] = SoloOutcome(sheet_links[i])

\* Three links, the second does not resolve, the first and the third give
\* their reports.
C2_Witness ==
  /\ pc = "done"
  /\ sheet_links = <<"u1", "u2", "u6">>
  /\ Outcomes[1].ev = "download" /\ Outcomes[1].name = "Acme"
  /\ Outcomes[2].ev = "error" /\ Outcomes[2].link = "u2"
  /\ Outcomes[3].ev = "download" /\ Outcomes[3].name = "Dune"

\* The columns a normalizer reads from the raw frame.
SourceColumns(kind) ==
  CASE kind = "PRODUCTS" -> {"Date Uploaded:", "eBay Price", "Profit Per Product Present"}
    [] kind = "ORDERS" -> {"Date Of Purchase", "eBay Price", "Profit Per Sale USD",
                           "Total Sales", "Total Profits"}
    [] kind = "HOURSWORKED" -> {"Date:", "Hours:"}

Labels(row) == {row[i] : i \in 1..Len(row)}

\* A grid with a data row whose header lacks a column the normalizer reads.
LacksColumn(kind, grid) ==
  Len(grid) >= 2 /\ \E c \in SourceColumns(kind) : c \notin Labels(grid[1])

\* The spreadsheet resolves and the loop body gets as far as normalizing a
\* fetched grid that lacks a column.
HitsLackingGrid(s) ==
  /\ s.resolves
  /\ FirstFailing(s) # 0
  /\ LET k == Kinds[FirstFailing(s)]
     IN s.sheets[k].found /\ LacksColumn(k, Fetched(s.sheets[k]))

\* C3: a fetched grid with a data row and without a required column makes
\* the normalizer raise (KeyError); the outcome of that link is an error
\* carrying the link, no report is offered for it, and the links after it
\* are processed as they are in a batch of their own.
C3_SchemaMismatch ==
  /\ (pc = "normalize" /\ LacksColumn(worksheet, raw_data)) =>
       /\ Normalizer(worksheet, raw_data).raised
       /\ Normalizer(worksheet, raw_data).exc = "KeyError"
       /\ ~ENABLED NormalizeReturns
  /\ pc = "done" =>
       /\ Len(Outcomes) = Len(sheet_links)
       /\ \A i \in 1..Len(sheet_links) :
            HitsLackingGrid(remote[sheet_links[i]]) =>
              /\ Outcomes[i].ev = "error"
              /\ Outcomes[i].link = sheet_links[i]
              /\ Outcomes[i].exc = "KeyError"
              /\ \A j \in (i + 1)..Len(sheet_links) : Outcomes[j] = SoloOutcome(sheet_links[j])

\* The PRODUCTS grid of the first link lacks 'Date Uploaded:'; the link ends
\* in an error and the next link gets its report.
C3_Witness ==
  /\ pc = "done"
  /\ sheet_links = <<"u3", "u1">>
  /\ Outcomes[1] = ErrorOutcome("u3", "KeyError", "Date Uploaded:")
  /\ Outcomes[2].ev = "download" /\ Outcomes[2].name = "Acme"

\* The titles of the charts drawn from a worksheet.
ChartTitles(kind) ==
  CASE kind = "PRODUCTS" -> {"Products Uploaded per Month"}
    [] kind = "ORDERS" -> {"Sales per Month", "Profit per Month"}
    [] kind = "HOURSWORKED" -> {"Hours Worked per Month"}

\* The summary lines (positions in the document) drawn from a worksheet.
SummaryLines(kind) ==
  CASE kind = "PRODUCTS" -> {}
    [] kind = "ORDERS" -> {2, 3}
    [] kind = "HOURSWORKED" -> {4}

\* Worksheet a raises on every call of a fetch, worksheet b holds no row.
DeadAndEmpty(a, b) ==
  /\ a.found /\ a.fails >= DefaultRetries
  /\ b = Worksheet(0, <<>>)

\* Two spreadsheets that differ only in worksheets that are dead in the
\* first and empty in the second.
Twins(a, b) ==
  /\ a.resolves /\ b.resolves /\ a.title = b.title
  /\ \A k \in DOMAIN a.sheets : a.sheets[k] = b.sheets[k] \/ DeadAndEmpty(a.sheets[k], b.sheets[k])
  /\ \E k \in DOMAIN a.sheets : DeadAndEmpty(a.sheets[k], b.sheets[k])

PictureTitles(doc) ==
  {doc[n].graph.title : n \in {m \in 1..Len(doc) : doc[m].type = "picture"}}

\* C10: a link whose worksheet raises on every call and a link whose
\* worksheet holds no row, all else equal, have the same outcome; when
\* nothing else fails it is a report, without a chart of that worksheet and
\* with 0 in the summary lines drawn from it.
C10_FailedFetchLooksEmpty ==
  pc = "done" =>
    \A i, j \in 1..Len(sheet_links) :
      LET a == remote[sheet_links[i]]
          b == remote[sheet_links[j]]
      IN Twins(a, b) =>
           /\ Outcomes[i].ev = Outcomes[j].ev
           /\ Outcomes[i].ev = "download" => Outcomes[i] = Outcomes[j]
           /\ FirstFailing(b) = 0 =>
                /\ Outcomes[i].ev = "download"
                /\ \A k \in DOMAIN a.sheets :
                     DeadAndEmpty(a.sheets[k], b.sheets[k]) =>
                       /\ PictureTitles(Outcomes[i].data) \cap ChartTitles(k) = {}
                       /\ \A n \in SummaryLines(k) : Outcomes[i].data[n].value = 0

\* A batch with both spreadsheets of a pair: ORDERS and PRODUCTS dead in the
\* first, empty in the second, and the same report for both.
C10_Witness ==
  /\ pc = "done"
  /\ sheet_links = <<"u4", "u5">>
  /\ Len(OfKind(events, "sleep")) = 2 * DefaultRetries
  /\ Outcomes[1].ev = "download"
  /\ Outcomes[1] = Outcomes[2]
  /\ Outcomes[1].data[2].value = 0
  /\ PictureTitles(Outcomes[1].data) = {"Hours Worked per Month"}

(***************************************************************************)
(* Properties of the normalizers and of the report (under SpecNorm)        *)
(***************************************************************************)

\* The state right after the normalizer of a worksheet returned: raw_data is
\* still the grid it was given.
AfterNormalize(kind) ==
  CASE kind = "PRODUCTS" -> pc = "worksheet" /\ worksheet = "ORDERS"
    [] kind = "ORDERS" -> pc = "worksheet" /\ worksheet = "HOURSWORKED"
    [] kind = "HOURSWORKED" -> pc = "report"

TableOf(kind) ==
  CASE kind = "PRODUCTS" -> products
    [] kind = "ORDERS" -> orders
    [] kind = "HOURSWORKED" -> hours

\* The target columns of a worksheet's schema.
Schema(kind) ==
  CASE kind = "PRODUCTS" -> {"Date Uploaded", "eBay Price", "Profit Per Product Present"}
    [] kind = "ORDERS" -> {"Date Of Purchase", "eBay Price", "Profit Per Sale USD",
                           "Total Sales", "Total Profits"}
    [] kind = "HOURSWORKED" -> {"Date", "Hours"}

KindSet == {"PRODUCTS", "ORDERS", "HOURSWORKED"}

\* C4 as stated: for a grid with fewer than 2 rows each normalizer returns a
\* table without rows whose columns are exactly the schema's target columns.
C4_EmptyTableHasSchemaColumns ==
  \A k \in KindSet :
    (AfterNormalize(k) /\ Len(raw_data) < 2) =>
       /\ Len(TableOf(k).rows) = 0
       /\ Labels(TableOf(k).columns) = Schema(k)

\* C4 amended: for a grid with fewer than 2 rows each normalizer returns,
\* without raising, the table without rows and without columns.
C4_EmptyTableHasNoColumns ==
  /\ (pc = "normalize" /\ Len(raw_data) < 2) => ~Normalizer(worksheet, raw_data).raised
  /\ \A k \in KindSet :
       (AfterNormalize(k) /\ Len(raw_data) < 2) =>
          /\ Len(TableOf(k).rows) = 0
          /\ Len(TableOf(k).columns) = 0

\* The ORDERS grid is a header alone; the orders table has no row and no
\* column.
C4_Witness ==
  /\ AfterNormalize("ORDERS")
  /\ Len(raw_data) = 1
  /\ raw_data[1] = GoodHeader("ORDERS")
  /\ orders = EmptyDataFrame

Occurrences(row, c) == Cardinality({i \in 1..Len(row) : row[i] = c})

\* Every data row of the grid is a row of the table, with every target
\* column.
KeepsEveryRow(kind) ==
  /\ Len(TableOf(kind).rows) = Len(raw_data) - 1
  /\ \A r \in 1..Len(TableOf(kind).rows) : DOMAIN TableOf(kind).rows[r] = Schema(kind)

\* C5 as stated: for a grid with at least 2 rows whose header contains the
\* required source columns, the normalizer does not raise and returns as
\* many rows as the grid has data rows.
C5_RowCountWhenColumnsPresent ==
  /\ (pc = "normalize" /\ Len(raw_data) >= 2
        /\ SourceColumns(worksheet) \subseteq Labels(raw_data[1])) =>
       ~Normalizer(worksheet, raw_data).raised
  /\ \A k \in KindSet : (AfterNormalize(k) /\ Len(raw_data) >= 2) => KeepsEveryRow(k)

\* C5 amended: for a grid with at least 2 rows whose header contains each
\* required source column exactly once, the normalizer does not raise and
\* returns as many rows as the grid has data rows, whatever the cells hold.
C5_RowCountWhenColumnsOnce ==
  /\ (pc = "normalize" /\ Len(raw_data) >= 2
        /\ \A c \in SourceColumns(worksheet) : Occurrences(raw_data[1], c) = 1) =>
       ~Normalizer(worksheet, raw_data).raised
  /\ \A k \in KindSet : (AfterNormalize(k) /\ Len(raw_data) >= 2) => KeepsEveryRow(k)

\* Two data rows with unparseable cells (a date that is no date; hours that
\* are no number): both rows are kept, the fields are absent.
C5_Witness ==
  /\ AfterNormalize("HOURSWORKED")
  /\ raw_data = <<GoodHeader("HOURSWORKED"), <<cBlank, c8, cText>>, <<c31Dec23, cText, cBlank>> >>
  /\ Len(hours.rows) = 2
  /\ hours.rows[1]["Date"] = NaT /\ hours.rows[1]["Hours"] = Num(8 * Unit)
  /\ hours.rows[2]["Date"] # NaT /\ hours.rows[2]["Hours"] = NaN

\* The four monthly series of the report, in its order: the table, its
\* date column, the series, the title of its chart.
Series ==
  << [table |-> products, date |-> "Date Uploaded", title |-> "Products Uploaded per Month",
      data |-> GroupSize(products, "Date Uploaded")],
     [table |-> orders, date |-> "Date Of Purchase", title |-> "Sales per Month",
      data |-> GroupCount(orders, "Date Of Purchase", "eBay Price")],
     [table |-> orders, date |-> "Date Of Purchase", title |-> "Profit per Month",
      data |-> GroupSum(orders, "Date Of Purchase", "Profit Per Sale USD")],
     [table |-> hours, date |-> "Date", title |-> "Hours Worked per Month",
      data |-> GroupSum(hours, "Date", "Hours")] >>

\* The calendar months of the rows of a table whose date is present.
MonthsPresent(df, date) ==
  {[y |-> df.rows[r][date].y, m |-> df.rows[r][date].m] :
     r \in {i \in 1..Len(df.rows) : df.rows[i][date] # NaT}}

MonthBefore(a, b) == a.y < b.y \/ (a.y = b.y /\ a.m < b.m)

\* A sequence of months in strictly increasing chronological order.
Chronological(ms) == \A i, j \in 1..Len(ms) : i < j => MonthBefore(ms[i], ms[j])

SeriesMonths(data) == [i \in 1..Len(data) |-> PeriodStr(data[i].key)]

Range(q) == {q[i] : i \in 1..Len(q)}

\* The report of the run, once the link has its download button.
Reported == pc = "done" /\ Len(Outcomes) = 1 /\ Outcomes[1].ev = "download"

Report == Outcomes[1].data

Pictures(doc) == SelectSeq(doc, LAMBDA e : e.type = "picture")

\* C6: whatever the order of the rows, each monthly aggregation of the
\* report has its keys in strictly increasing chronological order, none
\* twice, and has a key exactly for the calendar months of the rows whose
\* date is present; a row without a date adds no key.  The same holds of the
\* month labels of every chart of the report.
C6_MonthlyKeys ==
  /\ pc = "report" =>
       \A n \in 1..Len(Series) :
         /\ Chronological(SeriesMonths(Series[n].data))
         /\ Range(SeriesMonths(Series[n].data)) = MonthsPresent(Series[n].table, Series[n].date)
  /\ Reported =>
       \A p \in 1..Len(Pictures(Report)) :
         \A n \in 1..Len(Series) :
           Pictures(Report)[p].graph.title = Series[n].title =>
             /\ Chronological(Pictures(Report)[p].graph.x)
             /\ Range(Pictures(Report)[p].graph.x) = MonthsPresent(Series[n].table, Series[n].date)

\* Products uploaded in January 2024, then one without a date: one key, and
\* orders of January 2024 then December 2023: December comes first.
C6_Witness ==
  /\ pc = "report"
  /\ Len(products.rows) = 2
  /\ products.rows[1]["Date Uploaded"] = [y |-> 2024, m |-> 1, d |-> 15]
  /\ products.rows[2]["Date Uploaded"] = NaT
  /\ SeriesMonths(Series[1].data) = << [y |-> 2024, m |-> 1] >>
  /\ Len(orders.rows) = 2
  /\ orders.rows[1]["Date Of Purchase"] = [y |-> 2024, m |-> 1, d |-> 15]
  /\ orders.rows[2]["Date Of Purchase"] = [y |-> 2023, m |-> 12, d |-> 31]
  /\ SeriesMonths(Series[2].data) = << [y |-> 2023, m |-> 12], [y |-> 2024, m |-> 1] >>

\* The titles of the charts whose table has a row with a date, in the
\* order of the report.
ExpectedTitles ==
  LET wanted == SelectSeq(Series, LAMBDA s : MonthsPresent(s.table, s.date) # {})
  IN [i \in 1..Len(wanted) |-> wanted[i].title]

\* C7: create_graph returns None exactly for an empty series; the report
\* has a chart for an aggregation exactly when its series is not empty, the
\* charts stand in the order products, sales, profit, hours, and they come
\* after the heading and the three summary lines.
C7_ChartSections ==
  /\ pc = "report" =>
       \A n \in 1..Len(Series) :
         create_graph(Series[n].data, Series[n].title).none <=> Len(Series[n].data) = 0
  /\ Reported =>
       /\ [i \in 1..Len(Pictures(Report)) |-> Pictures(Report)[i].graph.title] = ExpectedTitles
       /\ \A i \in 1..Len(Pictures(Report)) : Len(Pictures(Report)[i].graph.x) > 0
       /\ Report[1].type = "heading"
       /\ \A i \in 2..4 : Report[i].type = "paragraph"
       /\ \A i \in 1..Len(Report) : Report[i].type = "picture" => i > 4

\* The orders table has a row but no row with a date: the report has the
\* products chart and the hours chart and none of the two orders charts.
C7_Witness ==
  /\ Reported
  /\ Len(orders.rows) = 1 /\ orders.rows[1]["Date Of Purchase"] = NaT
  /\ [i \in 1..Len(Pictures(Report)) |-> Pictures(Report)[i].graph.title]
       = <<"Products Uploaded per Month", "Hours Worked per Month">>

\* The sum of the present values of a column, row by row; 0 for a table
\* without the column.
RECURSIVE PresentSum(_, _, _)
PresentSum(df, col, n) ==
  IF n = 0 THEN 0
  ELSE PresentSum(df, col, n - 1) + (IF df.rows[n][col].nan THEN 0 ELSE df.rows[n][col].v)

ExpectedTotal(df, col) ==
  IF col \in Labels(df.columns) THEN PresentSum(df, col, Len(df.rows)) ELSE 0

\* cents is the amount v (in 1/Unit) rounded to hundredths.
IsRounded(cents, v) ==
  LET step == Unit \div 100
      diff == cents * step - v
  IN 2 * diff <= step /\ -2 * diff <= step

\* C8: once the three tables are there generate_report does not raise; the
\* report has the three summary lines, each the sum of the present values
\* of its column, absent cells left out, and 0 when the table is empty or
\* lacks the column.
C8_SummaryTotals ==
  /\ pc = "report" => ~generate_report(client_name, products, orders, hours).raised
  /\ (pc = "done" /\ FirstFailing(remote[sheet_links[1]]) = 0) => Reported
  /\ Reported =>
       /\ Report[2].text = "Total Sales"
       /\ IsRounded(Report[2].value, ExpectedTotal(orders, "Total Sales"))
       /\ Report[3].text = "Total Profit"
       /\ IsRounded(Report[3].value, ExpectedTotal(orders, "Total Profits"))
       /\ Report[4].text = "Total Hours Worked"
       /\ IsRounded(Report[4].value, ExpectedTotal(hours, "Hours"))
       /\ IsEmpty(orders) => Report[2].value = 0 /\ Report[3].value = 0
       /\ IsEmpty(hours) => Report[4].value = 0

\* Orders with one total and one absent total, no hours table at all: the
\* absent cell is left out and the hours line is 0.
C8_Witness ==
  /\ Reported
  /\ Len(orders.rows) = 2
  /\ orders.rows[1]["Total Sales"] = Num(1000 * Unit + 25 * (Unit \div 100))
  /\ orders.rows[2]["Total Sales"] = NaN
  /\ Report[2].value = 100025
  /\ hours = EmptyDataFrame
  /\ Report[4].value = 0

====
